---- MODULE Spec2Model ----
(***************************************************************************)
(* Truthy hallucination detector: the multi-source context aggregator of   *)
(* api.py (web_search_context and its five providers) and the classifier   *)
(* facade of src/detector.py (FreeDetector, hosted detectors, _parse_raw). *)
(*                                                                         *)
(* Python values that the providers read out of a remote JSON document are *)
(* modelled as records [ty, w, n]: ty is the Python type ("str", "list" or *)
(* "num"), w the sequence of atoms the text is made of (its identity) and  *)
(* n its length (the magnitude for a number).  A value is truthy iff n > 0.*)
(***************************************************************************)
EXTENDS Integers, Sequences, FiniteSets, TLC

\* ------------------------------------------------------------------- state
\* web_search_context: position in the provider chain, the shared WebContext,
\* the configured credentials, the providers called so far, how the latest
\* step ended, and how many sources the final truncation dropped.
VARIABLES pc, ctx, env, attempted, last, dropped
\* HallucinationDetector.detect: position, selected backend, whether
\* GROQ_API_KEY is set, the DetectionInput, the remote reply, the backends
\* invoked in order, the HallucinationResult and whether detect raised.
VARIABLES dpc, provider, groqKey, inp, remote, path, result, error
\* the text helpers _clean_query and _clean_json: which helper is applied,
\* the text it is given, and what comes out.
VARIABLES tpc, given, cleaned

webVars == <<pc, ctx, env, attempted, last, dropped>>
detVars == <<dpc, provider, groqKey, inp, remote, path, result, error>>
txtVars == <<tpc, given, cleaned>>
vars == <<pc, ctx, env, attempted, last, dropped,
          dpc, provider, groqKey, inp, remote, path, result, error,
          tpc, given, cleaned>>

\* ------------------------------------------------------------------ bounds
MaxResults == 2     \* items in a provider's result list
MaxFacts   == 1     \* items in DuckDuckGo's Infobox content

\* ------------------------------------------------------- program constants
TavilyTop        == 4
TavilySnippetCap == 300
TavilySummaries  == 2
BraveTop         == 4
BraveSummaries   == 3
SnippetCap       == 200
DdgInfoboxTop    == 10
DdgRelatedTop    == 3
DdgTitleCap      == 60
WikiExtractCap   == 800
WikiShortSummary == 150
WikiSearchTop    == 2
SourceCap        == 4

\* ------------------------------------------------------------ Python values
Str(id, len) == [ty |-> "str", w |-> <<id>>, n |-> len]
Num(k)       == [ty |-> "num", w |-> <<"#">>, n |-> k]
List(id, len) == [ty |-> "list", w |-> <<id>>, n |-> len]
Empty        == [ty |-> "str", w |-> <<>>, n |-> 0]

Truthy(v)   == v.n > 0
CanSlice(v) == v.ty # "num"
HasLen(v)   == v.ty # "num"
Slice(v, k) == IF v.n <= k THEN v ELSE [v EXCEPT !.n = k]
Take(s, k)  == IF Len(s) <= k THEN s ELSE SubSeq(s, 1, k)

\* " ".join(parts): defined for str parts only
RECURSIVE Join(_)
Join(parts) ==
    IF parts = <<>> THEN Empty
    ELSE IF Len(parts) = 1 THEN Head(parts)
    ELSE LET rest == Join(Tail(parts))
         IN [ty |-> "str", w |-> Head(parts).w \o rest.w, n |-> Head(parts).n + 1 + rest.n]
JoinRaises(parts) == \E i \in 1..Len(parts) : parts[i].ty # "str"

\* f"{title}: {snippet}"
Fmt(title, snippet) ==
    [ty |-> "str", w |-> title.w \o snippet.w, n |-> title.n + 2 + snippet.n]

\* ---------------------------------------------------------------- WebContext
NewContext == [title |-> Empty, facts |-> <<>>, summary |-> Empty, sources |-> <<>>]
Source(t, u, s) == [title |-> t, url |-> u, snippet |-> s]
Fact(l, v)      == [label |-> l, value |-> v]
Raise(c)  == [ctx |-> c, exc |-> TRUE]
Return(c) == [ctx |-> c, exc |-> FALSE]
DefaultUrl == "https://en.wikipedia.org"

\* ------------------------------------------------------------------ Tavily
\* A bad item is one whose .get raises (not a dict); a numeric content raises
\* on its slice; a list content is appended and makes the later join raise.
RECURSIVE TavilyItems(_, _, _)
TavilyItems(items, summaries, sources) ==
    IF items = <<>> THEN [summaries |-> summaries, sources |-> sources, exc |-> FALSE]
    ELSE LET item == Head(items) IN
         IF item.bad \/ ~CanSlice(item.snippet)
         THEN [summaries |-> summaries, sources |-> sources, exc |-> TRUE]
         ELSE LET snippet == Slice(item.snippet, TavilySnippetCap) IN
              IF Truthy(snippet)
              THEN TavilyItems(Tail(items), Append(summaries, snippet),
                       Append(sources, Source(item.title, item.url, Slice(snippet, SnippetCap))))
              ELSE TavilyItems(Tail(items), summaries, sources)

TavilySearch(resp, c) ==
    IF ~resp.ok THEN Raise(c)
    ELSE LET c1 == IF resp.answer # ""
                   THEN [c EXCEPT !.facts = <<Fact("Direct Answer", resp.answer)>> \o @]
                   ELSE c
             loop == TavilyItems(Take(resp.results, TavilyTop), <<>>, c1.sources)
             c2 == [c1 EXCEPT !.sources = loop.sources]
         IN IF loop.exc THEN Raise(c2)
            ELSE IF loop.summaries = <<>> THEN Return(c2)
            ELSE IF ~Truthy(c2.summary) /\ JoinRaises(Take(loop.summaries, TavilySummaries))
                 THEN Raise(c2)
            ELSE LET c3 == IF ~Truthy(c2.summary)
                           THEN [c2 EXCEPT !.summary = Join(Take(loop.summaries, TavilySummaries))]
                           ELSE c2
                     c4 == IF ~Truthy(c3.title) /\ resp.results # <<>>
                           THEN [c3 EXCEPT !.title = resp.results[1].title]
                           ELSE c3
                 IN Return(c4)

\* ------------------------------------------------------------------- Brave
RECURSIVE BraveItems(_, _, _)
BraveItems(items, summaries, sources) ==
    IF items = <<>> THEN [summaries |-> summaries, sources |-> sources, exc |-> FALSE]
    ELSE LET item == Head(items) IN
         IF item.bad
         THEN [summaries |-> summaries, sources |-> sources, exc |-> TRUE]
         ELSE IF Truthy(item.snippet)
              THEN IF ~CanSlice(item.snippet)
                   THEN [summaries |-> Append(summaries, Fmt(item.title, item.snippet)),
                         sources |-> sources, exc |-> TRUE]
                   ELSE BraveItems(Tail(items), Append(summaries, Fmt(item.title, item.snippet)),
                            Append(sources, Source(item.title, item.url, Slice(item.snippet, SnippetCap))))
              ELSE BraveItems(Tail(items), summaries, sources)

BraveSearch(resp, c) ==
    IF ~resp.ok THEN Raise(c)
    ELSE LET loop == BraveItems(Take(resp.results, BraveTop), <<>>, c.sources)
             c1 == [c EXCEPT !.sources = loop.sources]
         IN IF loop.exc THEN Raise(c1)
            ELSE IF loop.summaries = <<>> THEN Return(c1)
            ELSE LET c2 == [c1 EXCEPT !.summary = Join(Take(loop.summaries, BraveSummaries))]
                     c3 == IF ~Truthy(c2.title) /\ resp.results # <<>>
                           THEN [c2 EXCEPT !.title = resp.results[1].title]
                           ELSE c2
                 IN Return(c3)

\* -------------------------------------------------------------- DuckDuckGo
RECURSIVE DdgInfobox(_, _)
DdgInfobox(items, facts) ==
    IF items = <<>> THEN [facts |-> facts, exc |-> FALSE]
    ELSE LET item == Head(items) IN
         IF item.bad THEN [facts |-> facts, exc |-> TRUE]
         ELSE IF item.label # "" /\ item.value # ""
              THEN DdgInfobox(Tail(items), Append(facts, Fact(item.label, item.value)))
              ELSE DdgInfobox(Tail(items), facts)

RECURSIVE DdgRelated(_, _)
DdgRelated(items, sources) ==
    IF items = <<>> THEN [sources |-> sources, exc |-> FALSE]
    ELSE LET rt == Head(items) IN
         IF rt.isDict /\ Truthy(rt.Text) /\ rt.FirstURL # ""
         THEN IF ~CanSlice(rt.Text)
              THEN [sources |-> sources, exc |-> TRUE]
              ELSE DdgRelated(Tail(items),
                       Append(sources, Source(Slice(rt.Text, DdgTitleCap), rt.FirstURL,
                                              Slice(rt.Text, SnippetCap))))
         ELSE DdgRelated(Tail(items), sources)

\* An absent key and an empty value are one case here: Heading = Empty gives
\* the source title "Wikipedia", AbstractURL = "" gives the default url.
\* A number as AbstractText is stored as the summary before its slice raises.
DuckduckgoSearch(ddg, c) ==
    IF ~ddg.ok THEN Raise(c)
    ELSE LET c1 == IF Truthy(ddg.Heading) THEN [c EXCEPT !.title = ddg.Heading] ELSE c
             c2 == IF Truthy(ddg.AbstractText)
                   THEN [c1 EXCEPT !.summary = ddg.AbstractText]
                   ELSE c1
             c3 == IF Truthy(ddg.AbstractText)
                   THEN [c2 EXCEPT !.sources = Append(@,
                            Source(IF Truthy(ddg.Heading) THEN ddg.Heading ELSE Str("Wikipedia", 9),
                                   IF ddg.AbstractURL # "" THEN ddg.AbstractURL ELSE DefaultUrl,
                                   Slice(ddg.AbstractText, SnippetCap)))]
                   ELSE c2
             c4 == IF ddg.Answer # ""
                   THEN [c3 EXCEPT !.facts = <<Fact("Direct Answer", ddg.Answer)>> \o @]
                   ELSE c3
             box == DdgInfobox(Take(ddg.Infobox, DdgInfoboxTop), c4.facts)
             c5 == [c4 EXCEPT !.facts = box.facts]
             rel == DdgRelated(Take(ddg.RelatedTopics, DdgRelatedTop), c5.sources)
             c6 == [c5 EXCEPT !.sources = rel.sources]
         IN IF Truthy(ddg.AbstractText) /\ ~CanSlice(ddg.AbstractText) THEN Raise(c2)
            ELSE IF box.exc THEN Raise(c5)
            ELSE IF rel.exc THEN Raise(c6)
            ELSE Return(c6)

\* ---------------------------------------------------------- Wikipedia REST
\* badUrls: content_urls is not a dict, so the .get chain raises after the
\* title and summary were written.
WikipediaRest(wiki, c) ==
    IF ~wiki.ok THEN Raise(c)
    ELSE IF ~Truthy(wiki.extract) THEN Return(c)
    ELSE LET c1 == IF ~Truthy(c.title) THEN [c EXCEPT !.title = wiki.title] ELSE c
             c2 == IF ~Truthy(c1.summary)
                   THEN [c1 EXCEPT !.summary = Slice(wiki.extract, WikiExtractCap)]
                   ELSE c1
             page_url == IF wiki.page # "" THEN wiki.page ELSE DefaultUrl
             c3 == IF ~\E i \in 1..Len(c2.sources) : c2.sources[i].url = page_url
                   THEN [c2 EXCEPT !.sources = Append(@,
                            Source(IF Truthy(wiki.title) THEN wiki.title ELSE Str("Wikipedia", 9),
                                   page_url, Slice(wiki.extract, SnippetCap)))]
                   ELSE c2
         IN IF ~Truthy(c1.summary) /\ ~CanSlice(wiki.extract) THEN Raise(c1)
            ELSE IF wiki.badUrls THEN Raise(c2)
            ELSE IF ~CanSlice(wiki.extract)
                    /\ ~\E i \in 1..Len(c2.sources) : c2.sources[i].url = page_url
                 THEN Raise(c2)
            ELSE Return(c3)

\* -------------------------------------------------------- Wikipedia Search
WikiUrl(title) == IF title.w = <<>> THEN "wiki/" ELSE "wiki/" \o title.w[1]

RECURSIVE WikiSearchItems(_, _)
WikiSearchItems(items, c) ==
    IF items = <<>> THEN Return(c)
    ELSE LET item == Head(items) IN
         IF item.bad THEN Raise(c)
         ELSE IF Truthy(item.snippet)
              THEN LET c1 == IF ~Truthy(c.summary)
                             THEN [c EXCEPT !.summary = Fmt(item.title, item.snippet)]
                             ELSE c
                       c2 == [c1 EXCEPT !.sources = Append(@,
                                 Source(item.title, WikiUrl(item.title),
                                        Slice(item.snippet, SnippetCap)))]
                   IN WikiSearchItems(Tail(items), c2)
              ELSE WikiSearchItems(Tail(items), c)

WikipediaSearch(data, c) ==
    IF ~data.ok THEN Raise(c)
    ELSE WikiSearchItems(Take(data.search, WikiSearchTop), c)

\* ------------------------------------------------ remote responses (inputs)
SeqsUpTo(S, k) == UNION {[1..m -> S] : m \in 0..k}
BadItem == [bad |-> TRUE, title |-> Empty, url |-> "", snippet |-> Empty]
Item(t, u, s) == [bad |-> FALSE, title |-> t, url |-> u, snippet |-> s]

TavilyItemDom ==
    { Item(Str("tvT", 20), "u1", Str("tvA", 100)),
      Item(Empty, "u1", Empty),
      Item(Str("tvT", 20), "u2", List("tvL", 1)),
      BadItem }
TavilyResponses ==
    {[ok |-> FALSE, answer |-> "", results |-> <<>>]} \cup
    [ok : {TRUE}, answer : {"", "tvAns"}, results : SeqsUpTo(TavilyItemDom, MaxResults)]

BraveItemDom ==
    { Item(Str("brT", 20), "u1", Str("brA", 60)),
      Item(Str("brT", 20), "u2", Str("brB", 400)),
      BadItem }
BraveResponses ==
    {[ok |-> FALSE, results |-> <<>>]} \cup
    [ok : {TRUE}, results : SeqsUpTo(BraveItemDom, MaxResults)]

InfoboxDom ==
    { [bad |-> FALSE, label |-> "Direct Answer", value |-> "box"],
      [bad |-> TRUE, label |-> "", value |-> ""] }
RelatedDom ==
    { [isDict |-> TRUE, Text |-> Str("rt", 80), FirstURL |-> "u2"],
      [isDict |-> TRUE, Text |-> Num(3), FirstURL |-> "u1"] }
DdgResponses ==
    {[ok |-> FALSE, Heading |-> Empty, AbstractText |-> Empty, AbstractURL |-> "",
      Answer |-> "", Infobox |-> <<>>, RelatedTopics |-> <<>>]} \cup
    [ok : {TRUE},
     Heading : {Empty, Str("ddgH", 15)},
     AbstractText : {Empty, Str("ddgA", 100), Num(5)},
     AbstractURL : {"", "u1"},
     Answer : {"", "ddgAns"},
     Infobox : SeqsUpTo(InfoboxDom, MaxFacts),
     RelatedTopics : SeqsUpTo(RelatedDom, MaxResults)]

WikiRestResponses ==
    {[ok |-> FALSE, extract |-> Empty, title |-> Empty, page |-> "", badUrls |-> FALSE]} \cup
    [ok : {TRUE},
     extract : {Empty, Str("wkL", 900), Num(7)},
     title : {Empty, Str("wkT", 12)},
     page : {"", "u1"},
     badUrls : BOOLEAN]

WikiSearchItemDom ==
    { Item(Str("W1", 9), "", Str("ws1", 120)),
      Item(Str("W1", 9), "", Empty),
      BadItem }
WikiSearchResponses ==
    {[ok |-> FALSE, search |-> <<>>]} \cup
    [ok : {TRUE}, search : SeqsUpTo(WikiSearchItemDom, MaxResults)]

\* ------------------------------------------------------- web_search_context

\* try: provider(...)  except Exception: pass
TryCall(r) == [ctx |-> r.ctx, exc |-> FALSE]

\* one guarded provider call: what it leaves in ctx, and the bookkeeping
Attempt(name, r, next) ==
    LET g == TryCall(r) IN
    /\ ctx' = g.ctx
    /\ attempted' = Append(attempted, name)
    /\ last' = IF g.exc THEN "propagated" ELSE IF r.exc THEN "swallowed" ELSE "returned"
    /\ pc' = IF g.exc THEN "raised" ELSE next
    /\ UNCHANGED <<env, dropped>>
    /\ UNCHANGED <<detVars, txtVars>>
Skip(next) ==
    /\ pc' = next
    /\ last' = "skipped"
    /\ UNCHANGED <<ctx, env, attempted, dropped>>
    /\ UNCHANGED <<detVars, txtVars>>

WebIdle ==
    /\ pc = "done"
    /\ ctx = NewContext
    /\ env = [TAVILY_API_KEY |-> FALSE, BRAVE_API_KEY |-> FALSE]
    /\ attempted = <<>>
    /\ last = "none"
    /\ dropped = 0

WebInit ==
    /\ pc = "tavily"
    /\ ctx = NewContext
    /\ env \in [TAVILY_API_KEY : BOOLEAN, BRAVE_API_KEY : BOOLEAN]
    /\ attempted = <<>>
    /\ last = "none"
    /\ dropped = 0

\* the order of the provider blocks in web_search_context
ProviderOrder == <<"tavily", "brave", "ddg", "wiki_rest", "wiki_search">>

TavilyAlways     == TRUE
TavilyEnabled    == env.TAVILY_API_KEY
BraveAlways      == env.BRAVE_API_KEY
BraveEnabled     == env.BRAVE_API_KEY /\ ~Truthy(ctx.summary)
DdgAlways        == TRUE
DdgEnabled       == ~Truthy(ctx.summary)
WikiRestEnabled  == ctx.summary.n < WikiShortSummary
WikiSearchAlways == TRUE
WikiSearchEnabled == ~Truthy(ctx.summary)

TavilyStep ==
    /\ pc = "tavily"
    /\ IF TavilyEnabled
       THEN \E resp \in TavilyResponses : Attempt("tavily", TavilySearch(resp, ctx), "brave")
       ELSE Skip("brave")

BraveStep ==
    /\ pc = "brave"
    /\ IF BraveEnabled
       THEN \E resp \in BraveResponses : Attempt("brave", BraveSearch(resp, ctx), "ddg")
       ELSE Skip("ddg")

DdgStep ==
    /\ pc = "ddg"
    /\ IF DdgEnabled
       THEN \E ddg \in DdgResponses : Attempt("ddg", DuckduckgoSearch(ddg, ctx), "wiki_rest")
       ELSE Skip("wiki_rest")

\* len(ctx.summary) is evaluated outside any try block
WikiRestStep ==
    /\ pc = "wiki_rest"
    /\ IF ~HasLen(ctx.summary)
       THEN /\ pc' = "raised"
            /\ last' = "propagated"
            /\ UNCHANGED <<ctx, env, attempted, dropped>>
            /\ UNCHANGED <<detVars, txtVars>>
       ELSE IF WikiRestEnabled
       THEN \E wiki \in WikiRestResponses :
                Attempt("wiki_rest", WikipediaRest(wiki, ctx), "wiki_search")
       ELSE Skip("wiki_search")

WikiSearchStep ==
    /\ pc = "wiki_search"
    /\ IF WikiSearchEnabled
       THEN \E data \in WikiSearchResponses :
                Attempt("wiki_search", WikipediaSearch(data, ctx), "truncate")
       ELSE Skip("truncate")

\* ctx.sources = ctx.sources[:4]
TruncateOffByOne(sources) == Take(sources, SourceCap + 1)
Truncate(sources) == Take(sources, SourceCap)

ReturnStep ==
    /\ pc = "truncate"
    /\ ctx' = [ctx EXCEPT !.sources = Truncate(@)]
    /\ dropped' = Len(ctx.sources) - Len(Truncate(ctx.sources))
    /\ pc' = "done"
    /\ UNCHANGED <<env, attempted, last>>
    /\ UNCHANGED <<detVars, txtVars>>

WebNext ==
    \/ TavilyStep
    \/ BraveStep
    \/ DdgStep
    \/ WikiRestStep
    \/ WikiSearchStep
    \/ ReturnStep


\* =================================================== src/detector.py
\* Texts are sequences of one-character strings.
UpperCase == <<"A", "B", "C", "D", "E", "F", "G", "H", "I", "J", "K", "L", "M",
               "N", "O", "P", "Q", "R", "S", "T", "U", "V", "W", "X", "Y", "Z">>
LowerCase == <<"a", "b", "c", "d", "e", "f", "g", "h", "i", "j", "k", "l", "m",
               "n", "o", "p", "q", "r", "s", "t", "u", "v", "w", "x", "y", "z">>
IsUpper(ch) == \E i \in 1..Len(UpperCase) : UpperCase[i] = ch
ToLower(ch) == IF IsUpper(ch)
               THEN LowerCase[CHOOSE i \in 1..Len(UpperCase) : UpperCase[i] = ch]
               ELSE ch
IsSpace(ch) == ch \in {" ", "\n", "\t", "\r"}
Lower(t) == [i \in 1..Len(t) |-> ToLower(t[i])]
IsBlank(t) == \A i \in 1..Len(t) : IsSpace(t[i])

RECURSIVE ToStr(_)
ToStr(word) == IF word = <<>> THEN "" ELSE Head(word) \o ToStr(Tail(word))

\* str.split(): the set of whitespace-separated words of t
WordStarts(t) ==
    {i \in 1..Len(t) : ~IsSpace(t[i]) /\ (i = 1 \/ IsSpace(t[i - 1]))}
WordEnd(t, i) ==
    LET ends == {j \in i..Len(t) : j = Len(t) \/ IsSpace(t[j + 1])}
    IN CHOOSE j \in ends : \A k \in ends : j <= k
Split(t) == {SubSeq(t, i, WordEnd(t, i)) : i \in WordStarts(t)}

\* w in text, for strings: substring containment
Contains(text, w) ==
    \E i \in 0..(Len(text) - Len(w)) : SubSeq(text, i + 1, i + Len(w)) = w

InceptionParagraph == <<"I", "n", "c", "e", "p", "t", "i", "o", "n", " ", "i", "s", " ", "a",
    " ", "2", "0", "1", "0", " ", "s", "c", "i", "e", "n", "c", "e", " ", "f", "i", "c", "t",
    "i", "o", "n", " ", "f", "i", "l", "m", " ", "d", "i", "r", "e", "c", "t", "e", "d", " ",
    "b", "y", " ", "C", "h", "r", "i", "s", "t", "o", "p", "h", "e", "r", " ", "N", "o", "l",
    "a", "n", ".", " ", "T", "h", "e", " ", "f", "i", "l", "m", " ", "s", "t", "a", "r", "s",
    " ", "L", "e", "o", "n", "a", "r", "d", "o", " ", "D", "i", "C", "a", "p", "r", "i", "o",
    " ", "a", "s", " ", "D", "o", "m", " ", "C", "o", "b", "b", ",", " ", "a", " ", "t", "h",
    "i", "e", "f", " ", "w", "h", "o", " ", "s", "t", "e", "a", "l", "s", " ", "i", "n", "f",
    "o", "r", "m", "a", "t", "i", "o", "n", " ", "b", "y", " ", "i", "n", "f", "i", "l", "t",
    "r", "a", "t", "i", "n", "g", " ", "d", "r", "e", "a", "m", "s", ".", " ", "T", "h", "e",
    " ", "m", "o", "v", "i", "e", " ", "e", "x", "p", "l", "o", "r", "e", "s", " ", "t", "h",
    "e", "m", "e", "s", " ", "o", "f", " ", "r", "e", "a", "l", "i", "t", "y", ",", " ", "m",
    "e", "m", "o", "r", "y", ",", " ", "a", "n", "d", " ", "s", "u", "b", "c", "o", "n", "s",
    "c", "i", "o", "u", "s", " ", "m", "a", "n", "i", "p", "u", "l", "a", "t", "i", "o", "n",
    ".">>
InceptionQuestion == <<"W", "h", "o", " ", "d", "i", "r", "e", "c", "t", "e", "d", " ", "I",
    "n", "c", "e", "p", "t", "i", "o", "n", "?">>
InceptionAnswer == <<"I", "n", "c", "e", "p", "t", "i", "o", "n", " ", "w", "a", "s", " ", "d",
    "i", "r", "e", "c", "t", "e", "d", " ", "b", "y", " ", "S", "t", "e", "v", "e", "n", " ",
    "S", "p", "i", "e", "l", "b", "e", "r", "g", ".">>
TeslaParagraph == <<"T", "e", "s", "l", "a", " ", "m", "a", "k", "e", "s", " ", "e", "l", "e",
    "c", "t", "r", "i", "c", " ", "c", "a", "r", "s", ".">>
TeslaQuestion == <<"W", "h", "o", " ", "l", "e", "a", "d", "s", " ", "T", "e", "s", "l", "a",
    "?">>
TeslaAnswer == <<"E", "l", "o", "n", " ", "M", "u", "s", "k", " ", "l", "e", "a", "d", "s",
    ".">>
OrwellParagraph == <<"T", "h", "e", " ", "n", "o", "v", "e", "l", " ", "d", "e", "p", "i", "c",
    "t", "s", " ", "o", "p", "p", "r", "e", "s", "s", "i", "v", "e", " ", "s", "u", "r", "v",
    "e", "i", "l", "l", "a", "n", "c", "e", ".">>
OrwellQuestion == <<"W", "h", "a", "t", " ", "i", "s", " ", "t", "h", "e", " ", "t", "h", "e",
    "m", "e", "?">>
OrwellAnswer == <<"T", "h", "e", " ", "n", "o", "v", "e", "l", " ", "p", "r", "o", "m", "o",
    "t", "e", "s", " ", "s", "t", "a", "b", "i", "l", "i", "t", "y", ".">>
ParisParagraph == <<"P", "a", "r", "i", "s", " ", "i", "s", " ", "i", "n", " ", "F", "r", "a",
    "n", "c", "e", ".">>
ParisQuestion == <<"W", "h", "e", "r", "e", " ", "i", "s", " ", "P", "a", "r", "i", "s", "?">>
ParisAnswer == <<"P", "a", "r", "i", "s", " ", "i", "s", " ", "i", "n", " ", "F", "r", "a",
    "n", "c", "e", ".">>
CupQuestion == <<"W", "h", "o", " ", "w", "o", "n", " ", "t", "h", "e", " ", "c", "u", "p",
    "?">>
CupAnswer == <<"B", "r", "a", "z", "i", "l", " ", "w", "o", "n", " ", "t", "h", "e", " ", "c",
    "u", "p", ".">>
FoundersQuestion == <<"W", "h", "o", " ", "f", "o", "u", "n", "d", "e", "d", " ", "T", "e",
    "s", "l", "a", "?">>
FoundersAnswer == <<"M", "u", "s", "k", " ", "E", "b", "e", "r", "h", "a", "r", "d", " ", "T",
    "a", "r", "p", "e", "n", "n", "i", "n", "g", " ", "W", "r", "i", "g", "h", "t", " ", "S",
    "t", "r", "a", "u", "b", "e", "l", ".">>
CountParagraph == <<"R", "o", "m", "e", " ", "o", "n", "e", " ", "t", "w", "o", " ", "t", "h",
    "r", "e", "e", " ", "f", "o", "u", "r", " ", "f", "i", "v", "e", " ", "s", "i", "x", ".">>
CountQuestion == <<"C", "o", "u", "n", "t", "?">>
CountAnswerAt35 == <<"R", "o", "m", "e", " ", "o", "n", "e", " ", "t", "w", "o", " ", "t", "h",
    "r", "e", "e", " ", "f", "o", "u", "r", " ", "f", "i", "v", "e", " ", "s", "i", "x", " ",
    "r", "e", "d", " ", "b", "l", "u", "e", " ", "g", "r", "e", "e", "n", " ", "p", "i", "n",
    "k", " ", "g", "r", "a", "y", " ", "g", "o", "l", "d", " ", "t", "e", "a", "l", " ", "l",
    "i", "m", "e", " ", "n", "a", "v", "y", " ", "p", "l", "u", "m", " ", "r", "o", "s", "e",
    " ", "r", "u", "b", "y", " ", "Z", "e", "u", "s">>
CountAnswerBelow35 == <<"R", "o", "m", "e", " ", "o", "n", "e", " ", "t", "w", "o", " ", "t",
    "h", "r", "e", "e", " ", "f", "o", "u", "r", " ", "f", "i", "v", "e", " ", "s", "i", "x",
    " ", "r", "e", "d", " ", "b", "l", "u", "e", " ", "g", "r", "e", "e", "n", " ", "p", "i",
    "n", "k", " ", "g", "r", "a", "y", " ", "g", "o", "l", "d", " ", "t", "e", "a", "l", " ",
    "l", "i", "m", "e", " ", "n", "a", "v", "y", " ", "p", "l", "u", "m", " ", "r", "o", "s",
    "e", " ", "r", "u", "b", "y", " ", "j", "a", "d", "e", " ", "Z", "e", "u", "s">>
OrwellEntityAnswer == <<"O", "r", "w", "e", "l", "l", " ", "p", "r", "o", "m", "o", "t", "e",
    "s", " ", "s", "t", "a", "b", "i", "l", "i", "t", "y", ".">>
FoundedParagraph == <<"A", "p", "p", "l", "e", " ", "w", "a", "s", " ", "f", "o", "u", "n",
    "d", "e", "d", " ", "b", "y", " ", "J", "o", "b", "s", ".">>
FoundedQuestion == <<"W", "h", "o", " ", "f", "o", "u", "n", "d", "e", "d", " ", "A", "p", "p",
    "l", "e", "?">>
FoundedAnswer == <<"A", "p", "p", "l", "e", " ", "w", "a", "s", " ", "f", "o", "u", "n", "d",
    "e", "d", " ", "b", "y", " ", "J", "o", "b", "s", ".">>

STOPWORDS == {"the", "a", "an", "is", "was", "are", "were", "be", "been", "being", "have",
    "has", "had", "do", "does", "did", "will", "would", "shall", "should", "may", "might",
    "must", "can", "could", "to", "of", "in", "for", "on", "with", "at", "by", "from", "up",
    "about", "into", "through", "during", "it", "its", "this", "that", "these", "those", "and",
    "but", "or", "nor", "not", "so", "yet", "both", "either", "neither", "because", "as", "if",
    "then", "than", "when", "where", "who", "which", "what", "he", "she", "they", "we", "you",
    "i", "me", "him", "her", "us", "them", "also"}
inversion_pairs == <<
    [pos_w |-> {<<"p", "r", "o", "m", "o", "t", "e", "s">>, <<"s", "u", "p", "p", "o", "r", "t", "s">>, <<"e", "n", "d", "o", "r", "s", "e", "s">>, <<"a", "d", "v", "o", "c", "a", "t", "e", "s">>, <<"f", "a", "v", "o", "r", "s">>},
     neg_w |-> {<<"c", "r", "i", "t", "i", "q", "u", "e", "s">>, <<"o", "p", "p", "o", "s", "e", "s">>, <<"c", "r", "i", "t", "i", "c", "i", "z", "e", "s">>, <<"c", "o", "n", "d", "e", "m", "n", "s">>, <<"d", "e", "p", "i", "c", "t", "s">>, <<"w", "a", "r", "n", "s">>}],
    [pos_w |-> {<<"w", "o", "n">>, <<"v", "i", "c", "t", "o", "r", "y">>, <<"c", "h", "a", "m", "p", "i", "o", "n">>, <<"d", "e", "f", "e", "a", "t", "e", "d">>, <<"b", "e", "a", "t">>},
     neg_w |-> {<<"l", "o", "s", "t">>, <<"s", "u", "r", "r", "e", "n", "d", "e", "r", "e", "d">>, <<"c", "o", "n", "c", "e", "d", "e", "d">>}],
    [pos_w |-> {<<"i", "n", "v", "e", "n", "t", "e", "d">>, <<"c", "r", "e", "a", "t", "e", "d">>, <<"f", "o", "u", "n", "d", "e", "d">>, <<"b", "u", "i", "l", "t">>},
     neg_w |-> {<<"d", "i", "s", "c", "o", "v", "e", "r", "e", "d">>, <<"f", "o", "u", "n", "d">>, <<"e", "x", "p", "l", "o", "r", "e", "d">>}]
>>
\* string.punctuation (without the grave accent, which no input text holds)
Punctuation == {"!", "\"", "#", "$", "%", "&", "'", "(", ")", "*", "+", ",", "-", ".", "/",
    ":", ";", "<", "=", ">", "?", "@", "[", "\\", "]", "^", "_", "{", "|", "}", "~"}

\* tokens(t): lowercase, drop punctuation, split, as a set of words
StripPunct(t) == SelectSeq(t, LAMBDA ch : ch \notin Punctuation)
tokens(t) == {ToStr(w) : w \in Split(StripPunct(Lower(t)))}

\* {w for w in text.split() if w[0].isupper() and len(w) > 2}
caps(t) == {ToStr(w) : w \in {x \in Split(t) : IsUpper(x[1]) /\ Len(x) > 2}}

OverlapThresholdPct == 35
EntityConfidence    == 72
EntityElements      == 4
EntityNamed         == 3
IntentConfidence    == 70
CleanConfidence     == 80
NoParagraphConfidence == 40
Max(a, b) == IF a >= b THEN a ELSE b

\* HallucinationType values (models.py) and the type_map lookup
TypeValues == {"1A", "1B", "2A", "3A"}
\* TYPE 1..4 of the system instruction, as HallucinationType values
TaxonomyKinds == <<"1A", "1B", "2A", "3A">>
TypeList(h_type) == IF h_type \in TypeValues THEN <<h_type>> ELSE <<>>

\* list(s): a Python set is iterated in an order that depends on the
\* per-process string hash seed, so every order is possible
Orderings(S) ==
    {f \in [1..Cardinality(S) -> S] : \A i, j \in 1..Cardinality(S) : i # j => f[i] # f[j]}

\* the explanation strings of _heuristic_fallback (the em dash written as a
\* hyphen); the entity rule's string goes on with the joined names and the
\* overlap percentage, kept apart from the text in Explanation
EntityExplanation == <<"A", "n", "s", "w", "e", "r", " ", "i", "n", "t", "r", "o", "d", "u",
    "c", "e", "s", " ", "n", "a", "m", "e", "d", " ", "e", "n", "t", "i", "t", "i", "e", "s",
    " ", "n", "o", "t", " ", "f", "o", "u", "n", "d", " ", "i", "n", " ", "c", "o", "n", "t",
    "e", "x", "t", ":", " ">>
InversionExplanation == <<"A", "n", "s", "w", "e", "r", " ", "i", "n", "t", "e", "n", "t", " ",
    "c", "o", "n", "t", "r", "a", "d", "i", "c", "t", "s", " ", "p", "a", "r", "a", "g", "r",
    "a", "p", "h", " ", "f", "r", "a", "m", "i", "n", "g", " ", "-", " ", "p", "r", "e", "d",
    "i", "c", "a", "t", "e", " ", "i", "n", "v", "e", "r", "s", "i", "o", "n", " ", "d", "e",
    "t", "e", "c", "t", "e", "d", ".">>
\* explanation = ""  (its value before any rule has run)
UnsetExplanation == <<>>
NoSignalExplanation == <<"N", "o", " ", "c", "l", "e", "a", "r", " ", "h", "a", "l", "l", "u",
    "c", "i", "n", "a", "t", "i", "o", "n", " ", "s", "i", "g", "n", "a", "l", "s", " ", "d",
    "e", "t", "e", "c", "t", "e", "d", " ", "b", "y", " ", "r", "u", "l", "e", "-", "b", "a",
    "s", "e", "d", " ", "a", "n", "a", "l", "y", "s", "i", "s", ".">>
NoParagraphExplanation == <<"G", "R", "O", "Q", "_", "A", "P", "I", "_", "K", "E", "Y", " ",
    "n", "o", "t", " ", "c", "o", "n", "f", "i", "g", "u", "r", "e", "d", " ", "-", " ", "u",
    "s", "i", "n", "g", " ", "h", "e", "u", "r", "i", "s", "t", "i", "c", " ", "f", "a", "l",
    "l", "b", "a", "c", "k", ".", " ", "S", "e", "t", " ", "G", "R", "O", "Q", "_", "A", "P",
    "I", "_", "K", "E", "Y", " ", "f", "o", "r", " ", "L", "l", "a", "m", "a", " ", "3", ".",
    "1", " ", "8", "B", " ", "d", "e", "t", "e", "c", "t", "i", "o", "n", ".">>
RemoteExplanation == <<"r", "e", "m", "o", "t", "e", " ", "e", "x", "p", "l", "a", "n", "a",
    "t", "i", "o", "n">>
Explanation(text, names) == [text |-> text, names |-> names]
Result(h, c, types, elems, expl, fix) ==
    [is_hallucinated |-> h, confidence |-> c, hallucination_types |-> types,
     hallucinated_elements |-> elems, explanation |-> expl, correct_answer |-> fix]
NoResult == Result(FALSE, -1, <<>>, <<>>, Explanation(<<>>, <<>>), "")

\* does some inversion pair match (either direction)?
PairMatches(pair, para_l, ans_l) ==
    \/ /\ \E w \in pair.pos_w : Contains(ans_l, w)
       /\ \E w \in pair.neg_w : Contains(para_l, w)
    \/ /\ \E w \in pair.neg_w : Contains(ans_l, w)
       /\ \E w \in pair.pos_w : Contains(para_l, w)

\* if novel_caps and overlap < 0.35, with overlap = inter / denom
EntityRuleInclusive(novel_caps, inter, denom) ==
    novel_caps # {} /\ 100 * inter <= OverlapThresholdPct * denom
EntityRule(novel_caps, inter, denom) ==
    novel_caps # {} /\ 100 * inter < OverlapThresholdPct * denom

\* FreeDetector._heuristic_fallback: the set of results it can return
HeuristicFallback(i) ==
    LET para_tok == tokens(i.paragraph) \ STOPWORDS
        ans_tok  == tokens(i.answer) \ STOPWORDS
        novel_caps == (caps(i.answer) \ caps(i.paragraph)) \ caps(i.question)
        inter == Cardinality(ans_tok \cap para_tok)
        denom == Max(Cardinality(ans_tok), 1)
        para_l == Lower(i.paragraph)
        ans_l  == Lower(i.answer)
    IN IF ~IsBlank(i.paragraph)
       THEN IF EntityRule(novel_caps, inter, denom)
            THEN {Result(TRUE, EntityConfidence, TypeList("1"),
                         Take(order, EntityElements),
                         Explanation(EntityExplanation, Take(order, EntityNamed)),
                         "Answer should be grounded in the provided paragraph.")
                  : order \in Orderings(novel_caps)}
            ELSE IF \E k \in 1..Len(inversion_pairs) :
                        PairMatches(inversion_pairs[k], para_l, ans_l)
                 THEN {Result(TRUE, IntentConfidence, TypeList("3"), <<>>,
                              Explanation(InversionExplanation, <<>>),
                              "Answer relationship should align with paragraph intent.")}
                 ELSE {Result(FALSE, CleanConfidence, <<>>, <<>>,
                              Explanation(NoSignalExplanation, <<>>), "")}
       ELSE {Result(FALSE, NoParagraphConfidence, <<>>, <<>>,
                    Explanation(NoParagraphExplanation, <<>>), "")}

\* ------------------------------------------------------------- _parse_raw
\* bool(raw.get("is_hallucinated", False))
Bool(v) == v = "true"
\* int(raw.get("confidence", 0)): raises on null
IntRaises(v) == v.ty = "null"
Int0(v) == IF v.ty = "missing" THEN 0 ELSE v.v

RECURSIVE KnownTypes(_)
KnownTypes(codes) ==
    IF codes = <<>> THEN <<>>
    ELSE IF Head(codes) \in TypeValues
         THEN <<Head(codes)>> \o KnownTypes(Tail(codes))
         ELSE KnownTypes(Tail(codes))

\* if len(h_types) > 1: h_types = h_types[:1]
KeepAllTypes(h_types) == h_types
FirstType(h_types) == IF Len(h_types) > 1 THEN Take(h_types, 1) ELSE h_types

ParseRaw(raw) ==
    IF IntRaises(raw.confidence)
    THEN [result |-> NoResult, exc |-> TRUE]
    ELSE [result |-> Result(Bool(raw.is_hallucinated), Int0(raw.confidence),
                            FirstType(KnownTypes(raw.hallucination_types)),
                            raw.hallucinated_elements,
                            Explanation(raw.explanation, <<>>),
                            raw.correct_answer),
          exc |-> FALSE]

\* ---------------------------------------------------------- remote replies
MaxTypes == 2      \* type codes in a remote response

JsonConfidence ==
    { [ty |-> "missing", v |-> 0], [ty |-> "int", v |-> 85], [ty |-> "int", v |-> 150],
      [ty |-> "int", v |-> -5], [ty |-> "null", v |-> 0] }
RawResponses ==
    [is_hallucinated : {"true", "false", "missing"},
     confidence : JsonConfidence,
     hallucination_types : SeqsUpTo({"1A", "2A", "1"}, MaxTypes),
     hallucinated_elements : {<<"element">>},
     explanation : {<<>>, RemoteExplanation},
     correct_answer : {"", "remote answer"}]
NoRaw == [is_hallucinated |-> "missing", confidence |-> [ty |-> "missing", v |-> 0],
          hallucination_types |-> <<>>, hallucinated_elements |-> <<>>,
          explanation |-> <<>>, correct_answer |-> ""]
FailureKinds == {"network", "auth", "rate_limit", "bad_json", "missing_fields"}
RemoteReplies ==
    [kind : FailureKinds, raw : {NoRaw}] \cup [kind : {"ok"}, raw : RawResponses]
NoRemote == [kind |-> "none", raw |-> NoRaw]

\* the call to the remote model and the parse of its reply, shared by
\* _groq_detect, OpenAIDetector.detect and GeminiDetector.detect
RemoteDetect(reply) ==
    IF reply.kind # "ok" THEN [result |-> NoResult, exc |-> TRUE] ELSE ParseRaw(reply.raw)

\* FreeDetector._groq_detect: raises ValueError before any call without a key
GroqDetect(key, reply) ==
    IF ~key THEN [result |-> NoResult, exc |-> TRUE] ELSE RemoteDetect(reply)

\* ---------------------------------------------------------------- inputs
Input(p, q, a) == [paragraph |-> p, question |-> q, answer |-> a]
Inputs ==
    { Input(InceptionParagraph, InceptionQuestion, InceptionAnswer),
      Input(TeslaParagraph, TeslaQuestion, TeslaAnswer),
      Input(OrwellParagraph, OrwellQuestion, OrwellAnswer),
      Input(ParisParagraph, ParisQuestion, ParisAnswer),
      Input(<<>>, CupQuestion, CupAnswer),
      Input(<<" ">>, CupQuestion, CupAnswer),
      Input(TeslaParagraph, FoundersQuestion, FoundersAnswer),
      Input(CountParagraph, CountQuestion, CountAnswerAt35),
      Input(CountParagraph, CountQuestion, CountAnswerBelow35),
      Input(ParisParagraph, ParisQuestion, <<>>),
      Input(OrwellParagraph, OrwellQuestion, OrwellEntityAnswer),
      Input(FoundedParagraph, FoundedQuestion, FoundedAnswer) }

\* _heuristic_fallback on each input, computed once
heuristic_fallback == [i \in Inputs |-> HeuristicFallback(i)]

\* FreeDetector.detect: try _groq_detect, except Exception: heuristic
FreeNoFallback(g, i) ==
    [results |-> {g.result}, exc |-> g.exc, path |-> <<"groq">>]
FreeDetectOutcome(g, i) ==
    IF g.exc
    THEN [results |-> heuristic_fallback[i], exc |-> FALSE, path |-> <<"groq", "heuristic">>]
    ELSE [results |-> {g.result}, exc |-> FALSE, path |-> <<"groq">>]

\* OpenAIDetector.detect / GeminiDetector.detect: nothing is caught
HostedWithFallback(g, i, name) ==
    IF g.exc
    THEN [results |-> heuristic_fallback[i], exc |-> FALSE, path |-> <<name, "heuristic">>]
    ELSE [results |-> {g.result}, exc |-> FALSE, path |-> <<name>>]
HostedDetectOutcome(g, i, name) ==
    [results |-> {g.result}, exc |-> g.exc, path |-> <<name>>]

\* ------------------------------------------- HallucinationDetector.detect
DetIdle ==
    /\ dpc = "idle"
    /\ provider = "free"
    /\ groqKey = FALSE
    /\ inp = Input(<<>>, <<>>, <<>>)
    /\ remote = NoRemote
    /\ path = <<>>
    /\ result = NoResult
    /\ error = FALSE

DetInit ==
    /\ dpc = "start"
    /\ provider \in {"free", "openai", "gemini"}
    /\ groqKey \in BOOLEAN
    /\ inp \in Inputs
    /\ remote = NoRemote
    /\ path = <<>>
    /\ result = NoResult
    /\ error = FALSE

Finish(reply, o) ==
    /\ remote' = reply
    /\ path' = o.path
    /\ result' \in o.results
    /\ error' = o.exc
    /\ dpc' = IF o.exc THEN "error" ELSE "done"
    /\ UNCHANGED <<provider, groqKey, inp>>
    /\ UNCHANGED <<webVars, txtVars>>

FreeDetect ==
    /\ dpc = "start"
    /\ provider = "free"
    /\ \E reply \in IF groqKey THEN RemoteReplies ELSE {NoRemote} :
          Finish(reply, FreeDetectOutcome(GroqDetect(groqKey, reply), inp))

OpenAIDetect ==
    /\ dpc = "start"
    /\ provider = "openai"
    /\ \E reply \in RemoteReplies :
          Finish(reply, HostedDetectOutcome(RemoteDetect(reply), inp, "openai"))

GeminiDetect ==
    /\ dpc = "start"
    /\ provider = "gemini"
    /\ \E reply \in RemoteReplies :
          Finish(reply, HostedDetectOutcome(RemoteDetect(reply), inp, "gemini"))

DetNext ==
    \/ FreeDetect
    \/ OpenAIDetect
    \/ GeminiDetect

\* ================================================== text helpers
\* ------------------------------------------------------------ _clean_query
QueryCap     == 200
QueryMinLen  == 10
WikiQueryCap == 100

\* str.strip()
Strip(t) ==
    IF \A i \in 1..Len(t) : IsSpace(t[i]) THEN <<>>
    ELSE SubSeq(t,
             CHOOSE i \in 1..Len(t) :
                 ~IsSpace(t[i]) /\ \A k \in 1..(i - 1) : IsSpace(t[k]),
             CHOOSE j \in 1..Len(t) :
                 ~IsSpace(t[j]) /\ \A k \in (j + 1)..Len(t) : IsSpace(t[k]))

\* the alternatives of the pattern, in its order
LeadingWords == <<
    <<"w", "h", "a", "t">>,
    <<"w", "h", "o">>,
    <<"w", "h", "e", "n">>,
    <<"w", "h", "e", "r", "e">>,
    <<"w", "h", "y">>,
    <<"h", "o", "w">>,
    <<"w", "h", "i", "c", "h">>,
    <<"i", "s">>,
    <<"a", "r", "e">>,
    <<"w", "a", "s">>,
    <<"w", "e", "r", "e">>,
    <<"d", "i", "d">>,
    <<"d", "o">>,
    <<"d", "o", "e", "s">>,
    <<"t", "e", "l", "l", " ", "m", "e", " ", "a", "b", "o", "u", "t">> >>

\* \s+ from position i on: how many whitespace characters follow
SpaceRun(t, i) ==
    (CHOOSE j \in i..(Len(t) + 1) :
        /\ j = Len(t) + 1 \/ ~IsSpace(t[j])
        /\ \A k \in i..(j - 1) : IsSpace(t[k])) - i

\* ^(what|who|...|tell me about)\s+ with re.IGNORECASE: the length of the
\* match at the start of q, 0 when there is none
LeadMatch(q) ==
    LET hits == {k \in 1..Len(LeadingWords) :
                    /\ Len(q) > Len(LeadingWords[k])
                    /\ Lower(SubSeq(q, 1, Len(LeadingWords[k]))) = LeadingWords[k]
                    /\ IsSpace(q[Len(LeadingWords[k]) + 1])}
    IN IF hits = {} THEN 0
       ELSE LET k == CHOOSE h \in hits : \A g \in hits : h <= g
            IN Len(LeadingWords[k]) + SpaceRun(q, Len(LeadingWords[k]) + 1)

\* re.sub(pattern, '', q): the pattern is anchored, so one removal at most
RemoveLead(q) == SubSeq(q, LeadMatch(q) + 1, Len(q))

\* return q[:200] if len(q) > 10 else question[:200]
CleanQueryInclusive(question) ==
    LET q == RemoveLead(Strip(question))
    IN IF Len(q) >= QueryMinLen THEN Take(q, QueryCap) ELSE Take(question, QueryCap)
CleanQuery(question) ==
    LET q == RemoveLead(Strip(question))
    IN IF Len(q) > QueryMinLen THEN Take(q, QueryCap) ELSE Take(question, QueryCap)

\* query[:100] in _wikipedia_rest and _wikipedia_search
WikiQuery(query) == Take(query, WikiQueryCap)

\* questions: optional leading blank, optional leading word in some case,
\* a run of whitespace, optionally a second leading word, a body of n
\* characters, optional trailing blank
MaxGap == 2       \* whitespace characters between the leading word and the rest
Pad(n) == [i \in 1..n |-> "x"]
Blanks(n) == [i \in 1..n |-> " "]
BodyLengths == {0, 7, 10, 11, 99, 100, 101, 199, 200, 201}
QuestionWords ==
    { <<>>, <<"w", "h", "a", "t">>, <<"W", "h", "o">>, <<"I", "S">>, <<"d", "o">>,
      <<"d", "o", "e", "s">>, <<"t", "e", "l", "l", " ", "m", "e", " ", "a", "b", "o", "u", "t">>,
      <<"h", "o", "w", "e", "v", "e", "r">> }
Questions ==
    { lead \o word \o gap \o second \o Pad(n) \o trail :
        lead \in {<<>>, <<" ">>}, word \in QuestionWords,
        gap \in {Blanks(k) : k \in 0..MaxGap} \cup {<<"\n">>},
        second \in {<<>>, <<"i", "s", " ">>},
        n \in BodyLengths, trail \in {<<>>, <<" ">>} }

\* ------------------------------------------------------------- _clean_json
\* A response is a sequence of symbols: "FENCE" (three grave accents), "json"
\* (the word after an opening fence), whitespace, "{", "}", "kv" (the text of
\* an object's members outside nested objects) and "prose" (text that is
\* not JSON and holds no brace).
\* re.sub(r"^```json\s*", "", text)
StripFenceJson(t) ==
    IF Len(t) >= 2 /\ t[1] = "FENCE" /\ t[2] = "json"
    THEN SubSeq(t, 3 + SpaceRun(t, 3), Len(t)) ELSE t
\* re.sub(r"^```\s*", "", text)
StripFenceOpen(t) ==
    IF Len(t) >= 1 /\ t[1] = "FENCE"
    THEN SubSeq(t, 2 + SpaceRun(t, 2), Len(t)) ELSE t
\* re.sub(r"\s*```$", "", text)
StripFenceClose(t) ==
    IF Len(t) >= 1 /\ t[Len(t)] = "FENCE"
    THEN LET keep == {i \in 0..(Len(t) - 1) : i = 0 \/ ~IsSpace(t[i])}
         IN SubSeq(t, 1, CHOOSE i \in keep : \A k \in keep : k <= i)
    ELSE t
StripFences(t) == StripFenceClose(StripFenceOpen(StripFenceJson(Strip(t))))

\* re.search(r'\{.*\}', text, re.DOTALL): greedy, from the first "{" to the
\* last "}" after it; the text itself when there is no match
BraceSpan(t) ==
    LET opens == {i \in 1..Len(t) : t[i] = "{"}
    IN IF opens = {} THEN t
       ELSE LET first  == CHOOSE i \in opens : \A k \in opens : i <= k
                closes == {j \in (first + 1)..Len(t) : t[j] = "}"}
            IN IF closes = {} THEN t
               ELSE SubSeq(t, first, CHOOSE j \in closes : \A k \in closes : k <= j)

\* nesting depth after the first k symbols
Depth(t, k) ==
    Cardinality({i \in 1..k : t[i] = "{"}) - Cardinality({i \in 1..k : t[i] = "}"})
\* is t the text of exactly one JSON object?  A nested object is the value
\* of a member, so it follows member text.
ValidObject(t) ==
    /\ Len(t) >= 2 /\ t[1] = "{" /\ t[Len(t)] = "}"
    /\ Depth(t, Len(t)) = 0
    /\ \A k \in 1..(Len(t) - 1) : Depth(t, k) > 0
    /\ \A k \in 1..Len(t) : t[k] \in {"{", "}", "kv", " ", "\n"}
    /\ \A k \in 2..Len(t) : t[k] = "{" => t[k - 1] = "kv"

NoOutput == [out |-> <<>>, wiki |-> <<>>, exc |-> FALSE]
\* json.loads(text): whitespace around the value is allowed
JsonLoads(t) ==
    IF ValidObject(Strip(t)) THEN [out |-> Strip(t), wiki |-> <<>>, exc |-> FALSE]
    ELSE [out |-> <<>>, wiki |-> <<>>, exc |-> TRUE]
CleanJson(t) == JsonLoads(BraceSpan(StripFences(t)))

MaxTokens == 4      \* symbols between the wrappers of a response
Responses ==
    { pre \o body \o post :
        pre  \in {<<>>, <<"FENCE", "json", "\n">>, <<"FENCE", "\n">>, <<"prose", " ">>},
        body \in SeqsUpTo({"{", "}", "kv", "prose"}, MaxTokens),
        post \in {<<>>, <<"\n", "FENCE">>, <<" ", "prose">>} }

\* ------------------------------------------------- applying the helpers
TxtIdle ==
    /\ tpc = "idle"
    /\ given = <<>>
    /\ cleaned = NoOutput

TxtInit ==
    /\ cleaned = NoOutput
    /\ \/ tpc = "query" /\ given \in Questions
       \/ tpc = "json" /\ given \in Responses

\* query = _clean_query(question), and the query[:100] of the Wikipedia providers
CleanQueryStep ==
    /\ tpc = "query"
    /\ cleaned' = [out |-> CleanQuery(given), wiki |-> WikiQuery(CleanQuery(given)),
                   exc |-> FALSE]
    /\ tpc' = "query_done"
    /\ UNCHANGED <<given, webVars, detVars>>

\* _clean_json(content)
CleanJsonStep ==
    /\ tpc = "json"
    /\ cleaned' = CleanJson(given)
    /\ tpc' = "json_done"
    /\ UNCHANGED <<given, webVars, detVars>>

TxtNext ==
    \/ CleanQueryStep
    \/ CleanJsonStep

\* ----------------------------------------------------------- specifications
\* Spec: one call of web_search_context; the detector is idle.
Init == WebInit /\ DetIdle /\ TxtIdle
Next == WebNext
Spec == Init /\ [][Next]_vars

\* SpecDetect: one call of HallucinationDetector.detect; no web search runs.
InitDetect == DetInit /\ WebIdle /\ TxtIdle
NextDetect == DetNext
SpecDetect == InitDetect /\ [][NextDetect]_vars

\* SpecText: one application of _clean_query or of _clean_json.
InitText == TxtInit /\ WebIdle /\ DetIdle
NextText == TxtNext
SpecText == InitText /\ [][NextText]_vars

\* ============================================================== claims
Finished == dpc \in {"done", "error"}
\* detect returned what the heuristic classifier computed
ViaHeuristic == dpc = "done" /\ Len(path) = 2 /\ path[2] = "heuristic"
HasSourceFrom(id) == \E i \in 1..Len(ctx.sources) : ctx.sources[i].snippet.w = <<id>>

\* C1: web_search_context never raises: whatever the providers do, the call
\* ends by returning a context and no exception reaches the caller.
C1_NeverRaises == pc # "raised"

\* C2: in FreeDetector, detect never propagates an error: _groq_detect is
\* attempted first and, whenever it fails, the value returned is the result
\* of the heuristic classifier on the same input.
C2_FreeNeverRaises ==
    (provider = "free" /\ Finished) =>
        /\ ~error
        /\ dpc = "done"
        /\ path # <<>> /\ path[1] = "groq"
        /\ GroqDetect(groqKey, remote).exc =>
               /\ path = <<"groq", "heuristic">>
               /\ result \in heuristic_fallback[inp]
\* the key is set, the reply is not JSON, and the entity rule's result came back
C2_Witness ==
    /\ provider = "free" /\ dpc = "done" /\ groqKey
    /\ remote.kind = "bad_json"
    /\ result.is_hallucinated /\ result.confidence = 72

\* C3: in the hosted modes (openai, gemini) any failure of the call or of
\* parsing its response propagates out of detect; it is never swallowed and
\* the heuristic classifier is never used.
C3_HostedErrorsPropagate ==
    (provider \in {"openai", "gemini"} /\ Finished) =>
        /\ RemoteDetect(remote).exc => (error /\ dpc = "error" /\ result = NoResult)
        /\ \A k \in 1..Len(path) : path[k] # "heuristic"
\* the call succeeded but the response did not parse
C3_Witness ==
    /\ provider = "gemini" /\ dpc = "error"
    /\ remote.kind = "ok" /\ remote.raw.confidence.ty = "null"

\* C4: every result produced by any path carries at most one taxonomy type,
\* also when the remote response lists several type codes.
C4_AtMostOneType == dpc = "done" => Len(result.hallucination_types) <= 1
C4_Witness ==
    /\ dpc = "done" /\ provider = "openai"
    /\ remote.raw.hallucination_types = <<"2A", "1A">>
    /\ result.hallucination_types = <<"2A">>

\* C5: every result produced by any path has 0 <= confidence <= 100,
\* whatever confidence value the remote response contains.
C5_ConfidenceInRange ==
    dpc = "done" => (0 <= result.confidence /\ result.confidence <= 100)

\* C6: for every result produced by any path, if is_hallucinated is false
\* then the type list is empty and correct_answer is the empty string.
C6_CleanResultHasNoTypeNoAnswer ==
    (dpc = "done" /\ ~result.is_hallucinated) =>
        (result.hallucination_types = <<>> /\ result.correct_answer = "")

\* C7: the context returned by web_search_context holds at most 4 sources.
C7_AtMostFourSources == pc = "done" => Len(ctx.sources) <= 4
C7_Witness == pc = "done" /\ dropped > 0 /\ Len(ctx.sources) = 4

\* C8: all source URLs of the returned context are pairwise distinct.
C8_UrlsDistinct ==
    pc = "done" => \A i, j \in 1..Len(ctx.sources) :
                       i # j => ctx.sources[i].url # ctx.sources[j].url

\* C9: summary is first-writer-wins: once the summary is non-empty no later
\* step of the same call changes it.
C9_SummaryFirstWriterWins ==
    [][Truthy(ctx.summary) => ctx'.summary = ctx.summary]_vars
\* Tavily wrote a short summary, then Wikipedia REST returned a non-empty
\* extract (its source is in the list) and the summary is still Tavily's.
C9_Witness ==
    /\ pc = "wiki_search"
    /\ attempted = <<"tavily", "wiki_rest">>
    /\ last = "returned"
    /\ ctx.summary.w = <<"tvA">>
    /\ HasSourceFrom("wkL")

\* C10: title is first-writer-wins: once the title is non-empty no later step
\* of the same call changes it, for every combination of provider successes
\* and mid-call failures.
C10_TitleFirstWriterWins ==
    [][Truthy(ctx.title) => ctx'.title = ctx.title]_vars
\* Tavily wrote the title, then Wikipedia REST returned a page with its own
\* title and the context still carries Tavily's.
C10_Witness ==
    /\ pc = "wiki_search"
    /\ attempted = <<"tavily", "wiki_rest">>
    /\ last = "returned"
    /\ ctx.title.w = <<"tvT">>
    /\ \E i \in 1..Len(ctx.sources) : ctx.sources[i].title.w = <<"wkT">>

\* C11: the heuristic classifier is deterministic: for one (paragraph,
\* question, answer) triple every evaluation yields the same result in every
\* field, hallucinated_elements and the names in the explanation included.
C11_HeuristicDeterministic ==
    ViaHeuristic => \A r \in heuristic_fallback[inp] : r = result

\* C12: whenever the heuristic classifier returns is_hallucinated = true the
\* result carries exactly one taxonomy type: kind 1 when the novel-entity
\* rule fired (confidence 72), kind 3 when an inversion pair matched
\* (confidence 70), as for the paragraph that depicts oppressive
\* surveillance and the answer that says the novel promotes stability.
C12_HeuristicTypeMatchesRule ==
    (ViaHeuristic /\ result.is_hallucinated) =>
        /\ Len(result.hallucination_types) = 1
        /\ result.confidence = EntityConfidence =>
               result.hallucination_types = <<TaxonomyKinds[1]>>
        /\ result.confidence = IntentConfidence =>
               result.hallucination_types = <<TaxonomyKinds[3]>>

\* C13: for the Inception sample (the answer names Steven Spielberg) the
\* heuristic classifier returns is_hallucinated = true with kind 1,
\* confidence 72 and a hallucinated element derived from "Spielberg".
C13_InceptionSample ==
    (ViaHeuristic /\ inp = Input(InceptionParagraph, InceptionQuestion, InceptionAnswer)) =>
        /\ result.is_hallucinated
        /\ result.hallucination_types = <<TaxonomyKinds[1]>>
        /\ result.confidence = EntityConfidence
        /\ \E k \in 1..Len(result.hallucinated_elements) :
               result.hallucinated_elements[k] \in {"Spielberg", "Spielberg."}

\* does an explanation speak of the missing grounding paragraph?
MentionsGrounding(text) ==
    \/ Contains(Lower(text), <<"g", "r", "o", "u", "n", "d", "i", "n", "g">>)
    \/ Contains(Lower(text), <<"p", "a", "r", "a", "g", "r", "a", "p", "h">>)
    \/ Contains(Lower(text), <<"c", "o", "n", "t", "e", "x", "t">>)

\* C14: for every question and answer, when the paragraph is empty or only
\* whitespace the heuristic classifier returns is_hallucinated = false,
\* confidence 40, no type and an empty correct_answer, and its explanation
\* states that no grounding paragraph was available.
C14_EmptyParagraph ==
    (ViaHeuristic /\ IsBlank(inp.paragraph)) =>
        /\ ~result.is_hallucinated
        /\ result.confidence = NoParagraphConfidence
        /\ result.hallucination_types = <<>>
        /\ result.correct_answer = ""
        /\ MentionsGrounding(result.explanation.text)

\* C15: every result returned by free-mode detect after a fallback to the
\* heuristic classifier has a non-empty explanation, on each of the four
\* heuristic outcomes (entity rule, inversion rule, no signal, empty paragraph).
C15_FallbackExplains ==
    (provider = "free" /\ ViaHeuristic) => result.explanation.text # <<>>
\* the remote call failed and no rule fired on a grounded answer
C15_Witness ==
    /\ provider = "free" /\ ViaHeuristic /\ groqKey /\ remote.kind = "network"
    /\ ~IsBlank(inp.paragraph)
    /\ ~result.is_hallucinated /\ result.confidence = CleanConfidence
    /\ result.explanation.text # <<>>

\* the novel entities of an input: capitalised words of the answer that are
\* in neither the paragraph nor the question
novel_entities == [i \in Inputs |-> (caps(i.answer) \ caps(i.paragraph)) \ caps(i.question)]
\* overlap < 0.35, overlap being the share of the answer's content tokens
\* that are content tokens of the paragraph, over max(1, their number)
OverlapBelowThreshold ==
    [i \in Inputs |->
        LET answer_tokens    == tokens(i.answer) \ STOPWORDS
            paragraph_tokens == tokens(i.paragraph) \ STOPWORDS
            shared == Cardinality(answer_tokens \cap paragraph_tokens)
            total  == IF answer_tokens = {} THEN 1 ELSE Cardinality(answer_tokens)
        IN 20 * shared < 7 * total]

\* C16: with a non-empty paragraph the heuristic classifier reports the
\* entity hallucination (is_hallucinated = true, confidence 72, at most 4
\* hallucinated elements, all of them novel entities) exactly when the answer
\* has a novel entity and overlap < 0.35, where overlap is the share of the
\* answer's content tokens found in the paragraph, over max(1, their number);
\* an overlap of exactly 0.35 does not trigger it, an empty answer divides by
\* 1, and the rule wins over an inversion pair that would match as well.
C16_EntityRule ==
    (ViaHeuristic /\ ~IsBlank(inp.paragraph)) =>
        LET entity == result.is_hallucinated /\ result.confidence = EntityConfidence
        IN /\ entity <=> (novel_entities[inp] # {} /\ OverlapBelowThreshold[inp])
           /\ entity =>
                  /\ Len(result.hallucinated_elements) <= 4
                  /\ \A k \in 1..Len(result.hallucinated_elements) :
                         result.hallucinated_elements[k] \in novel_entities[inp]
\* 7 of the answer's 20 content tokens are in the paragraph and the answer
\* names a novel entity: overlap is exactly 0.35 and nothing is reported
C16_Witness ==
    /\ ViaHeuristic
    /\ inp = Input(CountParagraph, CountQuestion, CountAnswerAt35)
    /\ ~result.is_hallucinated /\ result.confidence = CleanConfidence
\* an empty answer against a paragraph: no error, no signal
C16_WitnessEmptyAnswer ==
    /\ ViaHeuristic /\ inp = Input(ParisParagraph, ParisQuestion, <<>>)
    /\ ~result.is_hallucinated
\* both the entity rule and an inversion pair apply: the entity rule wins
C16_WitnessBothRules ==
    /\ ViaHeuristic /\ inp = Input(OrwellParagraph, OrwellQuestion, OrwellEntityAnswer)
    /\ result.is_hallucinated /\ result.confidence = EntityConfidence

\* the taxonomy kind a type code of the system instruction stands for
KindOfCode(code) == TaxonomyKinds[CHOOSE k \in 1..4 : <<"1", "2", "3", "4">>[k] = code]

\* C17: a remote response with is_hallucinated = true whose
\* hallucination_types list starts with a type code the system instruction
\* allows ("1", "2", "3" or "4") is mapped by _parse_raw to a result whose
\* single type is the corresponding taxonomy kind; of several codes only the
\* first is kept.
C17_InstructionCodesMapped ==
    (/\ dpc = "done" /\ remote.kind = "ok" /\ ~ViaHeuristic
     /\ remote.raw.is_hallucinated = "true"
     /\ remote.raw.hallucination_types # <<>>
     /\ Head(remote.raw.hallucination_types) \in {"1", "2", "3", "4"}) =>
        result.hallucination_types = <<KindOfCode(Head(remote.raw.hallucination_types))>>

\* the whole words of a text, lowercased and without punctuation
Words(t) == Split(StripPunct(Lower(t)))
\* one side's word is a word of the answer, the other side's a word of the paragraph
WholeWordMatch(pair, paragraph, answer) ==
    \/ (pair.pos_w \cap Words(answer) # {} /\ pair.neg_w \cap Words(paragraph) # {})
    \/ (pair.neg_w \cap Words(answer) # {} /\ pair.pos_w \cap Words(paragraph) # {})

\* does some inversion pair match an input on whole words?
SomeWholeWordMatch ==
    [i \in Inputs |-> \E k \in 1..Len(inversion_pairs) :
                          WholeWordMatch(inversion_pairs[k], i.paragraph, i.answer)]

\* C18: with a non-empty paragraph and the entity rule not fired, the
\* heuristic classifier reports an intent inversion (is_hallucinated = true,
\* confidence 70) exactly when, for some inversion pair, the answer holds a
\* whole word of one side and the paragraph a whole word of the opposite
\* side; an answer and a paragraph that share only the same-side word
\* "founded" are not flagged.
C18_InversionOnWholeWords ==
    (/\ ViaHeuristic /\ ~IsBlank(inp.paragraph)
     /\ ~(result.is_hallucinated /\ result.confidence = EntityConfidence)) =>
        ((result.is_hallucinated /\ result.confidence = IntentConfidence)
            <=> SomeWholeWordMatch[inp])

\* the place of a provider in the chain
Turn(name) == CHOOSE k \in 1..Len(ProviderOrder) : ProviderOrder[k] = name

\* C19: in web_search_context the providers are attempted strictly
\* sequentially in the fixed order Tavily, Brave, DuckDuckGo, Wikipedia REST,
\* Wikipedia Search: each at most once per call, a provider starts only at
\* its own turn and has returned or failed before the next turn, and Tavily
\* and Brave are attempted only when their credential is configured.
C19_FixedSequentialOrder ==
    /\ [](/\ \A i, j \in 1..Len(attempted) :
                i < j => Turn(attempted[i]) < Turn(attempted[j])
          /\ \A i \in 1..Len(attempted) :
                /\ attempted[i] = "tavily" => env.TAVILY_API_KEY
                /\ attempted[i] = "brave"  => env.BRAVE_API_KEY)
    /\ [][attempted' # attempted =>
              /\ attempted' = Append(attempted, pc)
              /\ last' \in {"returned", "swallowed"}
              /\ pc' # pc]_vars
\* all five providers ran, one after the other, and the call returned
C19_Witness ==
    /\ pc = "done"
    /\ attempted = ProviderOrder

\* C20: Brave, DuckDuckGo and the last-resort Wikipedia Search are each
\* attempted if and only if the summary is empty when their turn comes (and,
\* for Brave, its credential is configured): a general web search is skipped
\* once an earlier provider wrote a summary, and Wikipedia Search runs
\* exactly when no earlier provider produced one.
C20_SearchOnlyWhileNoSummary ==
    [][/\ pc = "brave" =>
            (attempted' # attempted <=> (env.BRAVE_API_KEY /\ ctx.summary = Empty))
       /\ pc \in {"ddg", "wiki_search"} =>
            (attempted' # attempted <=> ctx.summary = Empty)]_vars
\* DuckDuckGo ran and wrote the summary; Wikipedia Search was skipped
C20_Witness ==
    /\ pc = "truncate" /\ last = "skipped"
    /\ attempted = <<"ddg", "wiki_rest">>
    /\ ctx.summary.w = <<"ddgA">>

\* C21: the Wikipedia REST provider is attempted if and only if the summary
\* has fewer than 150 characters when its turn comes, also when an earlier
\* provider wrote a short non-empty summary; it may then add a title and a
\* source but leaves the non-empty summary as it is.
C21_RestIffShortSummary ==
    [][pc = "wiki_rest" =>
          /\ attempted' # attempted <=> ctx.summary.n < 150
          /\ Truthy(ctx.summary) => ctx'.summary = ctx.summary]_vars

\* C22: the facts of the context returned by web_search_context are
\* deduplicated by label: no two facts share a label, also when Tavily and
\* DuckDuckGo both supply a "Direct Answer" fact or a DuckDuckGo infobox
\* repeats a label.
C22_FactLabelsDistinct ==
    pc = "done" => \A i, j \in 1..Len(ctx.facts) :
                       i # j => ctx.facts[i].label # ctx.facts[j].label

\* C25: a provider call that fails inside web_search_context leaves the
\* shared context exactly as it was before that call: title, facts, summary
\* and sources are unchanged, wherever in the provider the failure occurred.
C25_FailedProviderLeavesContext ==
    [][(attempted' # attempted /\ last' = "swallowed") => ctx' = ctx]_vars

\* the first balanced {...} region of a text, <<>> when there is none
FirstBalanced(t) ==
    LET opens == {i \in 1..Len(t) : t[i] = "{"}
    IN IF opens = {} THEN <<>>
       ELSE LET first == CHOOSE i \in opens : \A k \in opens : i <= k
                ends  == {j \in first..Len(t) : Depth(t, j) = Depth(t, first - 1)}
            IN IF ends = {} THEN <<>>
               ELSE SubSeq(t, first, CHOOSE j \in ends : \A k \in ends : j <= k)

\* C23: _clean_json strips the code-fence markers and then parses the first
\* balanced {...} JSON object of the text: a response made of one valid JSON
\* object followed by further text that holds braces is parsed to that first
\* object and does not fail.
C23_FirstBalancedObjectParsed ==
    (tpc = "json_done" /\ ValidObject(FirstBalanced(StripFences(given)))) =>
        /\ ~cleaned.exc
        /\ cleaned.out = FirstBalanced(StripFences(given))

\* what is left of a stripped question once one leading word and the
\* whitespace after it are gone; the question itself when no leading word,
\* followed by whitespace, starts it
Remaining(q) ==
    LET cut == {k \in 1..Len(q) :
                   /\ IsSpace(q[k])
                   /\ \E i \in 1..Len(LeadingWords) :
                          /\ Len(LeadingWords[i]) < k
                          /\ Lower(SubSeq(q, 1, Len(LeadingWords[i]))) = LeadingWords[i]
                          /\ \A j \in (Len(LeadingWords[i]) + 1)..k : IsSpace(q[j])
                   /\ k < Len(q) => ~IsSpace(q[k + 1])}
    IN IF cut = {} THEN q ELSE SubSeq(q, (CHOOSE k \in cut : TRUE) + 1, Len(q))

\* C24: _clean_query removes at most one leading interrogative or auxiliary
\* word (or "tell me about") with the whitespace after it, in any letter
\* case and only at the start; when 10 characters or fewer remain the
\* original question is used instead; the query never exceeds 200
\* characters and the Wikipedia providers use at most its first 100.
C24_CleanQuery ==
    tpc = "query_done" =>
        LET rest == Remaining(Strip(given))
        IN /\ cleaned.out = IF Len(rest) <= 10 THEN Take(given, 200) ELSE Take(rest, 200)
           /\ Len(cleaned.out) <= 200
           /\ Len(cleaned.wiki) <= 100
           /\ cleaned.wiki = Take(cleaned.out, 100)
\* "what" and a blank were followed by exactly 10 characters: the question
\* itself is the query
C24_Witness ==
    /\ tpc = "query_done"
    /\ given = <<"w", "h", "a", "t", " ">> \o Pad(10)
    /\ cleaned.out = given
\* a second leading word stays, and a long query is cut at 200 and at 100
C24_WitnessLong ==
    /\ tpc = "query_done"
    /\ given = <<"W", "h", "o", " ", "i", "s", " ">> \o Pad(201)
    /\ cleaned.out = <<"i", "s", " ">> \o Pad(197)
    /\ Len(cleaned.wiki) = 100

====
